---- MODULE Spec2Model ----
(***************************************************************************)
(* Model of src/api.py: the Azure OpenAI chat proxy.                       *)
(*                                                                         *)
(* Text is a sequence of pieces (characters or literal fragments), so that *)
(* string formatting is concatenation (\o) and can be told apart from the  *)
(* value that was formatted.  A Python call either returns a value or      *)
(* raises: Return(v) / Raise(type, msg).                                   *)
(***************************************************************************)
EXTENDS Integers, Sequences, FiniteSets, TLC

VARIABLES env, phase, config, startupError,
          lastOp, request, sentParams, upstream, gwResult, httpResponse,
          upstreamCalls

vars == <<env, phase, config, startupError,
          lastOp, request, sentParams, upstream, gwResult, httpResponse,
          upstreamCalls>>

(* ---------------------------- bounds ----------------------------------- *)
MaxLen == 2          \* longest system_message, in characters
MaxUserLen == 1      \* longest user_message, in characters
MaxChoices == 2      \* most choices in one upstream completion
MaxCalls == 2        \* most /chat requests in one run

(* ---------------------------- values ----------------------------------- *)
Chars == {"a", " "}

TextsUpTo(n) == UNION {[1..k -> Chars] : k \in 0..n}

\* Optional[str]: None, or a string (the empty string included)
None == [some |-> FALSE, val |-> <<>>]
Some(t) == [some |-> TRUE, val |-> t]
OptTexts == {None} \cup {Some(t) : t \in TextsUpTo(MaxLen)}

\* Python truthiness of an Optional[str]
Truthy(o) == o.some /\ Len(o.val) > 0

Return(v) == [raised |-> FALSE, value |-> v]
Raise(type, msg) == [raised |-> TRUE, exc |-> [type |-> type, msg |-> msg]]

\* str(e) of a plain exception is its message
StrExc(exc) == exc.msg

\* AttributeError raised by obj.name when the class has no such attribute
AttributeError(class, name) ==
    Raise("AttributeError", <<"'", class, "' object has no attribute '", name, "'">>)

(* ---------------------------- ChatRequest ------------------------------ *)
DefaultMaxTokens == 800
DefaultTemperature == "0.7"
DefaultTopP == "0.95"
DefaultPenalty == 0

ChatRequest ==
    { [ user_message |-> u, system_message |-> s,
        max_tokens |-> DefaultMaxTokens, temperature |-> DefaultTemperature,
        top_p |-> DefaultTopP, frequency_penalty |-> DefaultPenalty,
        presence_penalty |-> DefaultPenalty, stop |-> None, stream |-> st ]
      : u \in TextsUpTo(MaxUserLen), s \in OptTexts, st \in BOOLEAN }

(* ---------------------------- startup ---------------------------------- *)
Unset == "<unset>"                      \* os.getenv(name) returning None
EnvValues == {Unset, "", "x"}

RequiredOrder == << "AZURE_OPENAI_ENDPOINT", "AZURE_OPENAI_DEPLOYMENT_NAME",
                    "AZURE_TENANT_ID", "AZURE_CLIENT_ID", "AZURE_CLIENT_SECRET" >>
RequiredVars == {RequiredOrder[i] : i \in 1..Len(RequiredOrder)}
EnvVars == RequiredVars \cup {"AZURE_OPENAI_API_VERSION"}

DefaultApiVersion == "2025-01-01-preview"
TokenScope == "https://cognitiveservices.azure.com/.default"

\* variant: only an unset variable is rejected (value is None), "" is accepted
get_required_env_none_only(e, var_name) ==
    LET value == e[var_name]
    IN  IF value = Unset
        THEN Raise("ValueError", <<"Missing required environment variable: ", var_name>>)
        ELSE Return(value)

get_required_env(e, var_name) ==
    LET value == e[var_name]
    IN  IF value = Unset \/ value = ""
        THEN Raise("ValueError", <<"Missing required environment variable: ", var_name>>)
        ELSE Return(value)

\* os.getenv(name, default): the default only when the variable is unset
getenv_default(e, var_name, default) ==
    IF e[var_name] = Unset THEN default ELSE e[var_name]

\* the credential and client constructors of the SDKs may reject their arguments
SdkOutcomes == { Return("constructed"), Raise("ValueError", <<"Invalid tenant ID">>) }

initialize_client(e, endpoint, api_version, sdk) ==
    LET tenant_id == get_required_env(e, "AZURE_TENANT_ID")
        client_id == get_required_env(e, "AZURE_CLIENT_ID")
        client_secret == get_required_env(e, "AZURE_CLIENT_SECRET")
        body ==
            IF tenant_id.raised THEN tenant_id
            ELSE IF client_id.raised THEN client_id
            ELSE IF client_secret.raised THEN client_secret
            ELSE IF sdk.raised THEN sdk
            ELSE Return([ azure_endpoint |-> endpoint,
                          api_version |-> api_version,
                          tenant_id |-> tenant_id.value,
                          client_id |-> client_id.value,
                          client_secret |-> client_secret.value,
                          scope |-> TokenScope ])
    IN  IF body.raised
        THEN Raise("Exception",
                   <<"Failed to initialize Azure OpenAI client: ">> \o StrExc(body.exc))
        ELSE body

NoClient == [ azure_endpoint |-> Unset, api_version |-> Unset, tenant_id |-> Unset,
              client_id |-> Unset, client_secret |-> Unset, scope |-> Unset ]
NoConfig == [ endpoint |-> Unset, deployment |-> Unset, api_version |-> Unset,
              client |-> NoClient ]
NoError == [type |-> "", msg |-> <<>>]

ChatAPI_init(e, sdk) ==
    LET endpoint == get_required_env(e, "AZURE_OPENAI_ENDPOINT")
        deployment == get_required_env(e, "AZURE_OPENAI_DEPLOYMENT_NAME")
        api_version == getenv_default(e, "AZURE_OPENAI_API_VERSION", DefaultApiVersion)
    IN  IF endpoint.raised THEN endpoint
        ELSE IF deployment.raised THEN deployment
        ELSE LET client == initialize_client(e, endpoint.value, api_version, sdk)
             IN  IF client.raised THEN client
                 ELSE Return([ endpoint |-> endpoint.value,
                               deployment |-> deployment.value,
                               api_version |-> api_version,
                               client |-> client.value ])

(* ---------------------------- gateway ---------------------------------- *)
DefaultPersona == <<"You are an AI assistant that helps people find information.">>

Message(role, text) == [role |-> role, content |-> <<[type |-> "text", text |-> text]>>]

\* variant: no else branch, the system entry is left out without a system_message
build_messages_no_default(user_message, system_message) ==
    (IF Truthy(system_message) THEN <<Message("system", system_message.val)>> ELSE <<>>)
        \o <<Message("user", user_message)>>

\* variant: "is not None" in place of truthiness, "" is used as the system text
build_messages_is_not_none(user_message, system_message) ==
    LET first == IF system_message.some
                 THEN Message("system", system_message.val)
                 ELSE Message("system", DefaultPersona)
    IN  <<first>> \o <<Message("user", user_message)>>

RECURSIVE LStrip(_)
LStrip(t) == IF t # <<>> /\ Head(t) = " " THEN LStrip(Tail(t)) ELSE t

\* variant: the system text is stripped of leading blanks
build_messages_stripped(user_message, system_message) ==
    LET first == IF Truthy(system_message)
                 THEN Message("system", LStrip(system_message.val))
                 ELSE Message("system", DefaultPersona)
    IN  <<first>> \o <<Message("user", user_message)>>

build_messages(user_message, system_message) ==
    LET first == IF Truthy(system_message)
                 THEN Message("system", system_message.val)
                 ELSE Message("system", DefaultPersona)
    IN  <<first>> \o <<Message("user", user_message)>>

\* what the upstream SDK call can do
ReplyTexts == {<<"H", "i">>, <<>>}
Choice(t) == [message |-> [content |-> t]]
ChoiceLists == UNION {[1..k -> {Choice(t) : t \in ReplyTexts}] : k \in 0..MaxChoices}
UpstreamExceptions ==
    { [type |-> "APIConnectionError", msg |-> <<"Connection error.">>],
      [type |-> "RateLimitError", msg |-> <<"Rate limit reached">>] }
StreamObject == [class |-> "Stream", choices |-> <<>>]
Completion(cs) == [class |-> "ChatCompletion", choices |-> cs]

UpstreamOutcomes(stream) ==
    { [raised |-> TRUE, exc |-> x] : x \in UpstreamExceptions }
    \cup (IF stream THEN {Return(StreamObject)}
                    ELSE {Return(Completion(cs)) : cs \in ChoiceLists})

\* completion.choices.message.content.to_json(): .choices is a list (or is
\* missing on a Stream), and a list has no attribute 'message'
extract_content(completion) ==
    IF completion.class = "Stream"
    THEN AttributeError("Stream", "choices")
    ELSE AttributeError("list", "message")

ErrorRecord(exc) == [error |-> StrExc(exc), type |-> exc.type]

\* variant: no except clause, the exception propagates to the caller
create_chat_completion_uncaught(req, up) ==
    IF up.raised THEN up ELSE extract_content(up.value)

\* the try body raises what the upstream call or the extraction raises; the
\* except clause turns it into the error record
create_chat_completion(req, up) ==
    LET body == IF up.raised THEN up ELSE extract_content(up.value)
    IN  IF body.raised THEN Return(ErrorRecord(body.exc)) ELSE body

chat_params(deployment, req) ==
    [ model |-> deployment,
      messages |-> build_messages(req.user_message, req.system_message),
      max_tokens |-> req.max_tokens, temperature |-> req.temperature,
      top_p |-> req.top_p, frequency_penalty |-> req.frequency_penalty,
      presence_penalty |-> req.presence_penalty, stop |-> req.stop,
      stream |-> req.stream ]

(* ---------------------------- HTTP boundary ---------------------------- *)
Quote(t) == <<"'">> \o t \o <<"'">>

\* str() of a dict {error: M, type: K}
StrDict(d) == <<"{'error': ">> \o Quote(d.error) \o <<", 'type': ">> \o Quote(<<d.type>>) \o <<"}">>

\* str() of HTTPException(500, detail=<dict>): "<status_code>: <detail>"
StrHTTPException(d) == <<"500", ": ">> \o StrDict(d)

\* the framework's rendering of HTTPException(500, detail)
Http500(detail) == [status |-> 500, body |-> [detail |-> detail]]
Http200(body) == [status |-> 200, body |-> body]
NoResponse == [status |-> 0, body |-> [none |-> TRUE]]

chat_response(gw) ==
    IF gw.raised
    THEN Http500([json |-> "string", text |-> StrExc(gw.exc)])
    ELSE IF "error" \in DOMAIN gw.value
         THEN \* raise HTTPException(500, detail=response), caught two lines below
              Http500([json |-> "string", text |-> StrHTTPException(gw.value)])
         ELSE \* response.completion on a value that has no such attribute
              Http500([json |-> "string",
                       text |-> StrExc(AttributeError("dict", "completion").exc)])

health_response == Http200([status |-> "healthy"])

(* ---------------------------- state machine ---------------------------- *)
NoRequest == CHOOSE r \in ChatRequest : TRUE
NoParams == chat_params(Unset, NoRequest)
NoUpstream == Return(StreamObject)
NoResult == Return([error |-> <<>>, type |-> ""])

Init ==
    /\ env \in [EnvVars -> EnvValues]
    /\ phase = "init"
    /\ config = NoConfig
    /\ startupError = NoError
    /\ lastOp = "none"
    /\ request = NoRequest
    /\ sentParams = NoParams
    /\ upstream = NoUpstream
    /\ gwResult = NoResult
    /\ httpResponse = NoResponse
    /\ upstreamCalls = 0

\* chat_api = ChatAPI() at import time
Startup ==
    /\ phase = "init"
    /\ \E sdk \in SdkOutcomes :
         LET r == ChatAPI_init(env, sdk)
         IN  IF r.raised
             THEN /\ phase' = "failed"
                  /\ startupError' = r.exc
                  /\ config' = config
             ELSE /\ phase' = "serving"
                  /\ startupError' = startupError
                  /\ config' = r.value
    /\ UNCHANGED <<env, lastOp, request, sentParams, upstream, gwResult,
                   httpResponse, upstreamCalls>>

\* variant: a failed upstream call drops the shared client
chat_endpoint_resets_client(req, up) ==
    LET gw == create_chat_completion(req, up)
    IN  /\ lastOp' = "chat"
        /\ request' = req
        /\ sentParams' = chat_params(config.deployment, req)
        /\ upstream' = up
        /\ gwResult' = gw
        /\ httpResponse' = chat_response(gw)
        /\ upstreamCalls' = upstreamCalls + 1
        /\ config' = IF up.raised THEN [config EXCEPT !.client = NoClient] ELSE config
        /\ UNCHANGED <<env, phase, startupError>>

chat_endpoint(req, up) ==
    LET gw == create_chat_completion(req, up)
    IN  /\ lastOp' = "chat"
        /\ request' = req
        /\ sentParams' = chat_params(config.deployment, req)
        /\ upstream' = up
        /\ gwResult' = gw
        /\ httpResponse' = chat_response(gw)
        /\ upstreamCalls' = upstreamCalls + 1
        /\ UNCHANGED <<env, phase, config, startupError>>

PostChat ==
    /\ phase = "serving"
    /\ upstreamCalls < MaxCalls
    /\ \E req \in ChatRequest : \E up \in UpstreamOutcomes(req.stream) :
         chat_endpoint(req, up)

\* variant: the health check reports the last upstream failure
health_check_probing ==
    /\ lastOp' = "health"
    /\ httpResponse' = IF upstream.raised
                       THEN [status |-> 503, body |-> [status |-> "unhealthy"]]
                       ELSE health_response
    /\ UNCHANGED <<env, phase, config, startupError, request, sentParams,
                   upstream, gwResult, upstreamCalls>>

health_check ==
    /\ lastOp' = "health"
    /\ httpResponse' = health_response
    /\ UNCHANGED <<env, phase, config, startupError, request, sentParams,
                   upstream, gwResult, upstreamCalls>>

GetHealth ==
    /\ phase = "serving"
    /\ health_check

Next == Startup \/ PostChat \/ GetHealth

Spec == Init /\ [][Next]_vars

(* ---------------------------- properties ---------------------------- *)
ChatDone == lastOp = "chat"

ReturnedCompletion ==
    /\ ChatDone
    /\ ~upstream.raised
    /\ upstream.value.class = "ChatCompletion"

SentMessages == sentParams.messages
SystemText == SentMessages[1].content[1].text

\* C1: when the upstream call returns a completion with at least one choice,
\* POST /chat answers HTTP 200 with the first choice's message content.
C1_FirstChoiceContentReturned ==
    (ReturnedCompletion /\ Len(upstream.value.choices) >= 1)
        => /\ httpResponse.status = 200
           /\ httpResponse.body = upstream.value.choices[1].message.content

\* C2: when the upstream call returns a completion with no choices, the
\* gateway result is not an error record and POST /chat answers HTTP 200
\* with {"message": "No content returned"}.
C2_EmptyChoicesGiveNoContent ==
    (ReturnedCompletion /\ Len(upstream.value.choices) = 0)
        => /\ ~gwResult.raised
           /\ "error" \notin DOMAIN gwResult.value
           /\ httpResponse.status = 200
           /\ DOMAIN httpResponse.body = {"message"}
           /\ httpResponse.body.message = "No content returned"

\* C3: when the gateway result is an error record {error: M, type: K}, the
\* response is HTTP 500 and its body carries M and K as separate fields.
C3_ErrorRecordInBody ==
    (ChatDone /\ ~gwResult.raised /\ "error" \in DOMAIN gwResult.value)
        => /\ httpResponse.status = 500
           /\ {"error", "type"} \subseteq DOMAIN httpResponse.body.detail
           /\ httpResponse.body.detail.error = gwResult.value.error
           /\ httpResponse.body.detail.type = gwResult.value.type

\* C4: create_chat_completion never raises; an exception of kind K with
\* message M, raised by the upstream call or by result extraction, comes back
\* as the record {error: M, type: K}.
C4_GatewayReturnsErrorRecord ==
    ChatDone =>
        /\ ~gwResult.raised
        /\ upstream.raised =>
             gwResult.value = [error |-> upstream.exc.msg, type |-> upstream.exc.type]
        /\ ~upstream.raised =>
             /\ gwResult.value.type = "AttributeError"
             /\ gwResult.value.error \in
                  { <<"'", "list", "' object has no attribute '", "message", "'">>,
                    <<"'", "Stream", "' object has no attribute '", "choices", "'">> }

C4_Witness ==
    /\ ChatDone
    /\ upstream.raised
    /\ upstream.exc.type = "RateLimitError"
    /\ gwResult.value.type = "RateLimitError"

\* C5: the message list sent upstream has exactly two entries, a system
\* message and then a user message whose text is the request's user_message.
C5_TwoMessagesSystemThenUser ==
    ChatDone =>
        /\ Len(SentMessages) = 2
        /\ SentMessages[1].role = "system"
        /\ SentMessages[2].role = "user"
        /\ Len(SentMessages[2].content) = 1
        /\ SentMessages[2].content[1].text = request.user_message

C5_Witness ==
    /\ ChatDone
    /\ request.system_message = Some(<<>>)
    /\ request.user_message = <<"a">>
    /\ Len(SentMessages) = 2

\* C6: the system message's text is system_message when that is present and
\* non-empty, and the default persona otherwise.
C6_SystemTextOrDefault ==
    ChatDone =>
        SystemText = IF request.system_message.some /\ request.system_message.val # <<>>
                     THEN request.system_message.val
                     ELSE DefaultPersona

C6_Witness ==
    /\ ChatDone
    /\ request.system_message = None
    /\ SystemText = DefaultPersona

\* C7 as stated: whenever system_message is provided (any string, the empty
\* one included), the system message's text is that value.
C7_ProvidedUsedVerbatim ==
    (ChatDone /\ request.system_message.some)
        => SystemText = request.system_message.val

\* C7 amended: whenever system_message is provided and non-empty, the system
\* message's text is that value verbatim (untrimmed, nothing added).
C7_NonEmptyProvidedUsedVerbatim ==
    (ChatDone /\ request.system_message.some /\ Len(request.system_message.val) > 0)
        => SystemText = request.system_message.val

C7_Witness ==
    /\ ChatDone
    /\ request.system_message = Some(<<" ", "a">>)
    /\ SystemText = <<" ", "a">>

\* C8: GET /health answers HTTP 200 {"status": "healthy"} in every serving
\* state, whatever the upstream did before, and makes no upstream call.
C8_HealthAlwaysHealthy ==
    [][lastOp' = "health" =>
          /\ httpResponse' = [status |-> 200, body |-> [status |-> "healthy"]]
          /\ upstreamCalls' = upstreamCalls
          /\ sentParams' = sentParams]_vars

C8_Witness ==
    /\ lastOp = "health"
    /\ upstream.raised
    /\ upstreamCalls > 0
    /\ httpResponse.status = 200

Missing(v) == env[v] = Unset \/ env[v] = ""
SomeMissing == \E v \in RequiredVars : Missing(v)
FirstMissing ==
    RequiredOrder[CHOOSE i \in 1..Len(RequiredOrder) :
                    /\ Missing(RequiredOrder[i])
                    /\ \A j \in 1..(i - 1) : ~Missing(RequiredOrder[j])]

\* C9: with a required setting absent or empty, construction fails with a
\* message naming a missing variable (the first one read), the same on every
\* start, and the process never serves.
C9_MissingSettingAbortsStartup ==
    (phase # "init" /\ SomeMissing)
        => /\ phase = "failed"
           /\ lastOp = "none"
           /\ Len(startupError.msg) >= 2
           /\ startupError.msg[Len(startupError.msg) - 1]
                = "Missing required environment variable: "
           /\ startupError.msg[Len(startupError.msg)] = FirstMissing

C9_Witness ==
    /\ phase = "failed"
    /\ env["AZURE_CLIENT_SECRET"] = ""
    /\ \A v \in RequiredVars \ {"AZURE_CLIENT_SECRET"} : ~Missing(v)
    /\ startupError.type = "Exception"

ExpectedError(up) ==
    IF up.raised THEN [error |-> up.exc.msg, type |-> up.exc.type]
    ELSE [error |-> <<"'", IF up.value.class = "Stream" THEN "Stream" ELSE "list",
                      "' object has no attribute '",
                      IF up.value.class = "Stream" THEN "choices" ELSE "message", "'">>,
          type |-> "AttributeError"]

\* C10: a /chat request leaves the state set at startup unchanged and the
\* process serving, and its response is determined by the upstream's reply to
\* it alone.
C10_RequestsLeaveProcessStateAlone ==
    [][phase = "serving" =>
          /\ phase' = "serving"
          /\ config' = config
          /\ env' = env
          /\ lastOp' = "chat" =>
               /\ httpResponse'.status = 500
               /\ httpResponse'.body.detail.text =
                    <<"500", ": ", "{'error': ", "'">> \o ExpectedError(upstream').error
                      \o <<"'", ", 'type': ", "'", ExpectedError(upstream').type, "'", "}">>]_vars

C10_Witness ==
    /\ ChatDone
    /\ upstreamCalls >= 2
    /\ upstream.raised
    /\ config.client.azure_endpoint = "x"

====
